---- MODULE Spec2Model ----
(***************************************************************************)
(* Go-Back-N simulator (GoBackNsim.py): the channel, the sender, the       *)
(* receiver and the Tk-driven simulation loop.                             *)
(*                                                                         *)
(* Time.  self.current_time is an integer number of seconds.  Send and     *)
(* arrival times are floats of the form  seconds + k * 0.2 ; they are kept *)
(* here as integers counted in fifths of a second (Fifth(1) = 5), which is *)
(* exact for the bursts of at most six packets the bounds allow            *)
(* (0.2 added five times is exactly 1.0 in binary floating point).         *)
(*                                                                         *)
(* Scheduling.  Tk runs one callback at a time; root.after(ms, f) is kept  *)
(* in `pending` with the whole seconds left until f is due, in due order   *)
(* and, among equal due times, in the order of the after() calls.          *)
(***************************************************************************)
EXTENDS Integers, Sequences, FiniteSets, TLC

VARIABLES
    entries,        \* the text of the six configuration Entry widgets
    running,        \* GbnSimulator.running
    is_finishing,   \* GbnSimulator.is_finishing
    current_time,   \* GbnSimulator.current_time (seconds)
    sender,         \* GbnSimulator.sender   (None before the first start)
    receiver,       \* GbnSimulator.receiver
    channel,        \* GbnSimulator.channel
    log,            \* the lines of log_area
    pending,        \* Tk's timer queue: <<[cb, rem]>>
    trace           \* what the last simulation step did: the state it started from,
                    \* then its offers, timeout and dispatches in order

vars == <<entries, running, is_finishing, current_time, sender, receiver,
          channel, log, pending, trace>>

-----------------------------------------------------------------------------
(* Bounds of the model *)

MaxTotal == 3
MaxWindow == 2
MaxTimeout == 2
MaxDelay == 1
MaxLoss == 1
MaxTime == 11
MaxPending == 2

(* Program constants *)

FifthsPerSecond == 5
BurstStep == 1
TickPeriod == 1
GracePeriod == 5

-----------------------------------------------------------------------------
(* Values *)

None == [none |-> TRUE]

Fifth(seconds) == seconds * FifthsPerSecond

Packet(type, seq_num, data) == [type |-> type, seq_num |-> seq_num, data |-> data]

Payload(seq) == [payload |-> seq]

C17_MutantRemovesNothing(list, x) == list

RECURSIVE RemoveFirst(_, _)
RemoveFirst(list, x) ==
    IF list = <<>> THEN <<>>
    ELSE IF Head(list) = x THEN Tail(list)
    ELSE <<Head(list)>> \o RemoveFirst(Tail(list), x)

Contains(list, x) == \E i \in 1..Len(list) : list[i] = x

IsDigitToken(tok) == tok.digit

RECURSIVE IntsOf(_)
IntsOf(tokens) ==
    IF tokens = <<>> THEN <<>>
    ELSE <<Head(tokens).val>> \o IntsOf(Tail(tokens))

ParseLossList(tokens) == IntsOf(SelectSeq(tokens, IsDigitToken))

LogLine(time, tag, msg, seq) == [time |-> time, tag |-> tag, msg |-> msg, seq |-> seq]

-----------------------------------------------------------------------------
(* Channel *)

NewChannel(loss_data_str, loss_ack_str, delay) ==
    [loss_data    |-> ParseLossList(loss_data_str),
     loss_ack     |-> ParseLossList(loss_ack_str),
     delay        |-> delay,
     packet_queue |-> <<>>]

C16_MutantAckNeverDropped(ch, packet) ==
    packet.type = "DATA" /\ Contains(ch.loss_data, packet.seq_num)

C7_MutantNeverDrops(ch, packet) == FALSE

DropsPacket(ch, packet) ==
    IF packet.type = "DATA" THEN Contains(ch.loss_data, packet.seq_num)
    ELSE IF packet.type = "ACK" THEN Contains(ch.loss_ack, packet.seq_num)
    ELSE FALSE

C4_MutantLossNeverConsumed(ch, packet) == ch

\* self.loss_data.remove(...) / self.loss_ack.remove(...) (lines 44-51)
ConsumeLoss(ch, packet) ==
    IF packet.type = "DATA" /\ Contains(ch.loss_data, packet.seq_num)
    THEN [ch EXCEPT !.loss_data = RemoveFirst(@, packet.seq_num)]
    ELSE IF packet.type = "ACK" /\ Contains(ch.loss_ack, packet.seq_num)
    THEN [ch EXCEPT !.loss_ack = RemoveFirst(@, packet.seq_num)]
    ELSE ch

\* times in fifths of a second; the result is the returned status and the channel
send_to_network(ch, packet, destination, now, offset) ==
    IF DropsPacket(ch, packet)
    THEN [status |-> "DROP", channel |-> ConsumeLoss(ch, packet)]
    ELSE LET send_time_float == now + offset
             arrival_time_float == send_time_float + Fifth(ch.delay)
         IN [status  |-> "SENT",
             channel |-> [ch EXCEPT !.packet_queue =
                            Append(@, [arrival_time |-> arrival_time_float,
                                       pkt          |-> packet,
                                       dest         |-> destination,
                                       send_time    |-> send_time_float])]]

C9_MutantArrivesLate(ch, now_seconds) ==
    LET Arrived(item) == Fifth(now_seconds) > item.arrival_time
        Waiting(item) == ~Arrived(item)
    IN [delivered |-> SelectSeq(ch.packet_queue, Arrived),
        channel   |-> [ch EXCEPT !.packet_queue = SelectSeq(@, Waiting)]]

get_delivered_packets(ch, now_seconds) ==
    LET Arrived(item) == Fifth(now_seconds) >= item.arrival_time
        Waiting(item) == ~Arrived(item)
    IN [delivered |-> SelectSeq(ch.packet_queue, Arrived),
        channel   |-> [ch EXCEPT !.packet_queue = SelectSeq(@, Waiting)]]

-----------------------------------------------------------------------------
(* Sender and receiver *)

NewSender(window_size, total_packets, timeout) ==
    [window_size     |-> window_size,
     total_packets   |-> total_packets,
     timeout         |-> timeout,
     base            |-> 0,
     next_seq        |-> 0,
     buffer          |-> <<>>,
     timer_start     |-> -1,
     retransmissions |-> 0,
     duplicate_pkts  |-> 0]

C10_MutantTimerAlwaysExpired(s, now_seconds) == s.base # s.next_seq

C3_MutantTimerLate(s, now_seconds) ==
    IF s.base = s.next_seq THEN FALSE
    ELSE IF now_seconds - s.timer_start > s.timeout THEN TRUE
    ELSE FALSE

check_timer(s, now_seconds) ==
    IF s.base = s.next_seq THEN FALSE
    ELSE IF now_seconds - s.timer_start >= s.timeout THEN TRUE
    ELSE FALSE

NewReceiver ==
    [expected_seq |-> 0, delivered_count |-> 0, last_ack_sent |-> -1]

\* self.sender.buffer[seq] = pkt
BufferPut(buffer, seq, pkt) ==
    [k \in (DOMAIN buffer) \cup {seq} |-> IF k = seq THEN pkt ELSE buffer[k]]

-----------------------------------------------------------------------------
(* The simulation step.  st = [sender, receiver, channel, log, trace] is    *)
(* the part of the state one step reads and writes; trace starts a step as *)
(* <<StepStart>> and gets one entry per offer, timeout and dispatch.        *)

Logged(st, now_seconds, tag, msg, seq) ==
    [st EXCEPT !.log = Append(@, LogLine(now_seconds, tag, msg, seq))]

\* a call of channel.send_to_network, with the offer noted in the history
Offer(st, pkt, dest, now_seconds, now, offset, cause) ==
    LET res == send_to_network(st.channel, pkt, dest, now, offset)
    IN [status |-> res.status,
        st     |-> [st EXCEPT
                      !.channel = res.channel,
                      !.trace = Append(@,
                         [op         |-> "offer",
                          time       |-> now_seconds,
                          type       |-> pkt.type,
                          seq_num    |-> pkt.seq_num,
                          cause      |-> cause,
                          status     |-> res.status,
                          send_time  |-> now + offset,
                          loss_data0 |-> st.channel.loss_data,
                          loss_ack0  |-> st.channel.loss_ack,
                          loss_data1 |-> res.channel.loss_data,
                          loss_ack1  |-> res.channel.loss_ack])]]

\* for seq in range(base, next_seq): ... (lines 396-405)
RECURSIVE RetransmitWindow(_, _, _, _, _)
RetransmitWindow(st, seq, last, burst_offset, now_seconds) ==
    IF seq >= last THEN st
    ELSE LET st1 == [st EXCEPT !.sender.duplicate_pkts = @ + 1]
             pkt == st1.sender.buffer[seq]
             o   == Offer(st1, pkt, "Receiver", now_seconds, Fifth(now_seconds),
                          burst_offset, "retransmit")
             st2 == IF o.status = "SENT"
                    THEN Logged(o.st, now_seconds, "LOSS", "Retransmitting Data", seq)
                    ELSE Logged(o.st, now_seconds, "LOSS", "Retransmission Data DROPPED", seq)
         IN RetransmitWindow(st2, seq + 1, last, burst_offset + BurstStep, now_seconds)

\* 1. SENDER TIMEOUT CHECK (lines 388-405)
TimeoutCheck(st, now_seconds) ==
    IF check_timer(st.sender, now_seconds)
    THEN LET st1 == Logged(st, now_seconds, "TIMEOUT", "Timeout Packet", st.sender.base)
             st2 == [st1 EXCEPT !.sender.retransmissions = @ + 1,
                                !.sender.timer_start = now_seconds]
             st3 == RetransmitWindow(st2, st2.sender.base, st2.sender.next_seq, 0,
                                     now_seconds)
         IN [st3 EXCEPT !.trace = Append(@,
                [op               |-> "timeout",
                 time             |-> now_seconds,
                 base             |-> st3.sender.base,
                 next_seq         |-> st3.sender.next_seq,
                 timer_start      |-> st3.sender.timer_start,
                 retransmissions0 |-> st.sender.retransmissions,
                 retransmissions1 |-> st3.sender.retransmissions,
                 duplicate_pkts0  |-> st.sender.duplicate_pkts,
                 duplicate_pkts1  |-> st3.sender.duplicate_pkts])]
    ELSE st

C1_MutantWindowOffByOne(s) ==
    /\ s.next_seq <= s.base + s.window_size
    /\ s.next_seq < s.total_packets

\* the while condition of the send burst (line 409)
WindowOpen(s) ==
    /\ s.next_seq < s.base + s.window_size
    /\ s.next_seq < s.total_packets

\* 2. SEND BURST OF NEW PACKETS (lines 407-423)
RECURSIVE FillWindow(_, _, _)
FillWindow(st, burst_offset, now_seconds) ==
    IF WindowOpen(st.sender)
    THEN LET seq == st.sender.next_seq
             pkt == Packet("DATA", seq, Payload(seq))
             st1 == [st EXCEPT !.sender.buffer = BufferPut(@, seq, pkt)]
             st2 == IF st1.sender.base = st1.sender.next_seq
                    THEN [st1 EXCEPT !.sender.timer_start = now_seconds]
                    ELSE st1
             o   == Offer(st2, pkt, "Receiver", now_seconds, Fifth(now_seconds),
                          burst_offset, "new")
             st3 == IF o.status = "SENT"
                    THEN Logged(o.st, now_seconds, "SEND", "Sender Data", seq)
                    ELSE Logged(o.st, now_seconds, "LOSS", "Sender Data DROPPED", seq)
             st4 == [st3 EXCEPT !.sender.next_seq = @ + 1]
         IN FillWindow(st4, burst_offset + BurstStep, now_seconds)
    ELSE st

C18_MutantAcceptsDuplicates(rcv, pkt) == pkt.seq_num <= rcv.expected_seq

C5_MutantAcceptsAhead(rcv, pkt) == pkt.seq_num >= rcv.expected_seq

\* if pkt.seq_num == self.receiver.expected_seq (line 446)
InOrder(rcv, pkt) == pkt.seq_num = rcv.expected_seq

\* the receiver that does not note the ACK it sends for an accepted packet
C22_MutantForgetsLastAck(st, item, now_seconds) ==
    LET pkt == item.pkt
        rcv == st.receiver
        Noted(s) == [s EXCEPT !.trace = Append(@,
                        [op         |-> "data",
                         time       |-> now_seconds,
                         seq_num    |-> pkt.seq_num,
                         send_time  |-> item.send_time,
                         expected0  |-> rcv.expected_seq,
                         expected1  |-> s.receiver.expected_seq,
                         delivered0 |-> rcv.delivered_count,
                         delivered1 |-> s.receiver.delivered_count])]
    IN
    IF InOrder(rcv, pkt)
    THEN LET st1 == Logged(st, now_seconds, "INFO", "Receiver Data (Expected). Sending ACK.",
                           pkt.seq_num)
             st2 == [st1 EXCEPT !.receiver.delivered_count = @ + 1,
                                !.receiver.expected_seq = @ + 1]
             ack == Packet("ACK", pkt.seq_num, None)
             o   == Offer(Noted(st2), ack, "Sender", now_seconds, item.arrival_time, 0, "ack")
         IN IF o.status = "DROP"
            THEN Logged(o.st, now_seconds, "LOSS", "ACK Dropped by Channel", pkt.seq_num)
            ELSE o.st
    ELSE IF pkt.seq_num < rcv.expected_seq
    THEN Noted(Logged(st, now_seconds, "INFO", "Receiver Data (Duplicate). Ignore.",
                      pkt.seq_num))
    ELSE LET st1 == Noted(Logged(st, now_seconds, "INFO",
                                 "Receiver Data (Out of Order). Discard.", pkt.seq_num))
         IN IF rcv.expected_seq > 0
            THEN LET last_ack == rcv.expected_seq - 1
                 IN IF rcv.last_ack_sent = last_ack
                    THEN Logged(st1, now_seconds, "INFO",
                                "Receiver sent ACK. Suppress duplicate.", last_ack)
                    ELSE LET st2 == Logged(st1, now_seconds, "INFO",
                                           "Receiver re-sending ACK", last_ack)
                             st3 == [st2 EXCEPT !.receiver.last_ack_sent = last_ack]
                             ack == Packet("ACK", last_ack, None)
                         IN Offer(st3, ack, "Sender", now_seconds, item.arrival_time,
                                  0, "reack").st
            ELSE st1

\* RECEIVER LOGIC (lines 445-475)
ReceiverLogic(st, item, now_seconds) ==
    LET pkt == item.pkt
        rcv == st.receiver
        Noted(s) == [s EXCEPT !.trace = Append(@,
                        [op         |-> "data",
                         time       |-> now_seconds,
                         seq_num    |-> pkt.seq_num,
                         send_time  |-> item.send_time,
                         expected0  |-> rcv.expected_seq,
                         expected1  |-> s.receiver.expected_seq,
                         delivered0 |-> rcv.delivered_count,
                         delivered1 |-> s.receiver.delivered_count])]
    IN
    IF InOrder(rcv, pkt)
    THEN LET st1 == Logged(st, now_seconds, "INFO", "Receiver Data (Expected). Sending ACK.",
                           pkt.seq_num)
             st2 == [st1 EXCEPT !.receiver.delivered_count = @ + 1,
                                !.receiver.expected_seq = @ + 1,
                                !.receiver.last_ack_sent = pkt.seq_num]
             ack == Packet("ACK", pkt.seq_num, None)
             o   == Offer(Noted(st2), ack, "Sender", now_seconds, item.arrival_time, 0, "ack")
         IN IF o.status = "DROP"
            THEN Logged(o.st, now_seconds, "LOSS", "ACK Dropped by Channel", pkt.seq_num)
            ELSE o.st
    ELSE IF pkt.seq_num < rcv.expected_seq
    THEN Noted(Logged(st, now_seconds, "INFO", "Receiver Data (Duplicate). Ignore.",
                      pkt.seq_num))
    ELSE LET st1 == Noted(Logged(st, now_seconds, "INFO",
                                 "Receiver Data (Out of Order). Discard.", pkt.seq_num))
         IN IF rcv.expected_seq > 0
            THEN LET last_ack == rcv.expected_seq - 1
                 IN IF rcv.last_ack_sent = last_ack
                    THEN Logged(st1, now_seconds, "INFO",
                                "Receiver sent ACK. Suppress duplicate.", last_ack)
                    ELSE LET st2 == Logged(st1, now_seconds, "INFO",
                                           "Receiver re-sending ACK", last_ack)
                             st3 == [st2 EXCEPT !.receiver.last_ack_sent = last_ack]
                             ack == Packet("ACK", last_ack, None)
                         IN Offer(st3, ack, "Sender", now_seconds, item.arrival_time,
                                  0, "reack").st
            ELSE st1

C8_MutantAckOnlyForBase(s, seq_num, now_seconds) ==
    IF seq_num = s.base
    THEN LET s1 == [s EXCEPT !.base = seq_num + 1]
         IN IF s1.base < s1.next_seq
            THEN [s1 EXCEPT !.timer_start = now_seconds]
            ELSE [s1 EXCEPT !.timer_start = -1]
    ELSE s

C12_MutantTimerNeverCleared(s, seq_num, now_seconds) ==
    IF seq_num >= s.base
    THEN [s EXCEPT !.base = seq_num + 1, !.timer_start = now_seconds]
    ELSE s

C2_MutantAckAdvancesByOne(s, seq_num, now_seconds) ==
    IF seq_num >= s.base
    THEN LET s1 == [s EXCEPT !.base = @ + 1]
         IN IF s1.base < s1.next_seq
            THEN [s1 EXCEPT !.timer_start = now_seconds]
            ELSE [s1 EXCEPT !.timer_start = -1]
    ELSE s

\* if pkt.seq_num >= self.sender.base: ... (lines 481-488)
CumulativeAck(s, seq_num, now_seconds) ==
    IF seq_num >= s.base
    THEN LET s1 == [s EXCEPT !.base = seq_num + 1]
         IN IF s1.base < s1.next_seq
            THEN [s1 EXCEPT !.timer_start = now_seconds]
            ELSE [s1 EXCEPT !.timer_start = -1]
    ELSE s

\* SENDER LOGIC (Processing ACKs) (lines 478-488)
SenderLogic(st, item, now_seconds) ==
    LET pkt == item.pkt
        st1 == Logged(st, now_seconds, "ACK", "Sender received ACK", pkt.seq_num)
        st2 == [st1 EXCEPT !.sender = CumulativeAck(@, pkt.seq_num, now_seconds)]
    IN [st2 EXCEPT !.trace = Append(@,
           [op           |-> "ack",
            time         |-> now_seconds,
            seq_num      |-> pkt.seq_num,
            base0        |-> st.sender.base,
            base1        |-> st2.sender.base,
            next_seq     |-> st2.sender.next_seq,
            timer_start1 |-> st2.sender.timer_start])]

Dispatch(st, item, now_seconds) ==
    IF item.dest = "Receiver" /\ item.pkt.type = "DATA"
    THEN ReceiverLogic(st, item, now_seconds)
    ELSE IF item.dest = "Sender" /\ item.pkt.type = "ACK"
    THEN SenderLogic(st, item, now_seconds)
    ELSE st

RECURSIVE DispatchAll(_, _, _)
DispatchAll(st, arrivals, now_seconds) ==
    IF arrivals = <<>> THEN st
    ELSE DispatchAll(Dispatch(st, Head(arrivals), now_seconds), Tail(arrivals), now_seconds)

process_channel_only(st, now_seconds) ==
    LET got == get_delivered_packets(st.channel, now_seconds)
    IN DispatchAll([st EXCEPT !.channel = got.channel], got.delivered, now_seconds)

-----------------------------------------------------------------------------
(* Tk's timer queue *)

\* root.after(seconds, cb): after every callback due no later
RECURSIVE C14_MutantAfterJumpsQueue(_, _, _)
C14_MutantAfterJumpsQueue(queue, seconds, cb) ==
    IF queue = <<>> \/ Head(queue).rem >= seconds
    THEN <<[cb |-> cb, rem |-> seconds]>> \o queue
    ELSE <<Head(queue)>> \o C14_MutantAfterJumpsQueue(Tail(queue), seconds, cb)

RECURSIVE After(_, _, _)
After(queue, seconds, cb) ==
    IF queue = <<>> \/ Head(queue).rem > seconds
    THEN <<[cb |-> cb, rem |-> seconds]>> \o queue
    ELSE <<Head(queue)>> \o After(Tail(queue), seconds, cb)

Due(cb) == pending # <<>> /\ Head(pending).rem = 0 /\ Head(pending).cb = cb

-----------------------------------------------------------------------------
(* Handlers *)

Int4(e) == e.packets.int /\ e.window.int /\ e.timeout.int /\ e.delay.int

\* the START SIMULATION button
start_sim ==
    /\ ~running
    /\ Len(pending) < MaxPending
    /\ current_time' = 0
    /\ is_finishing' = FALSE
    /\ IF ~Int4(entries)
       THEN /\ log' = <<LogLine(0, "LOSS", "Error: Please enter valid integers.", -1)>>
            /\ UNCHANGED <<running, sender, receiver, channel, pending, trace>>
       ELSE /\ channel' = NewChannel(entries.loss_data, entries.loss_ack, entries.delay.val)
            /\ sender' = NewSender(entries.window.val, entries.packets.val,
                                   entries.timeout.val)
            /\ receiver' = NewReceiver
            /\ running' = TRUE
            /\ log' = <<LogLine(0, "INFO", "--- Simulation Started ---", -1)>>
            /\ pending' = After(pending, TickPeriod, "tick")
            /\ trace' = <<>>
    /\ UNCHANGED entries

StopBody ==
    /\ running' = FALSE
    /\ is_finishing' = FALSE
    /\ log' = Append(log, LogLine(current_time, "INFO", "--- Simulation Stopped ---", -1))

\* the STOP button (enabled from a successful start until a stop)
stop_sim ==
    /\ running
    /\ StopBody
    /\ UNCHANGED <<entries, current_time, sender, receiver, channel, pending, trace>>

\* stop_sim run by root.after(5000, self.stop_sim)
auto_stop ==
    /\ Due("stop")
    /\ StopBody
    /\ pending' = Tail(pending)
    /\ UNCHANGED <<entries, current_time, sender, receiver, channel, trace>>

StepStart ==
    [op           |-> "tick",
     time         |-> current_time,
     sender       |-> sender,
     receiver     |-> receiver,
     is_finishing |-> is_finishing]

C13_MutantSkipsDrain(st, now_seconds) == st

\* the step of a run whose packets are all acknowledged (lines 379-380)
Draining(st, now_seconds) == process_channel_only(st, now_seconds)

C19_MutantFillAfterDrain(st, now_seconds) ==
    FillWindow(process_channel_only(TimeoutCheck(st, now_seconds), now_seconds),
               0, now_seconds)

C6_MutantAcksBeforeTimer(st, now_seconds) ==
    FillWindow(TimeoutCheck(process_channel_only(st, now_seconds), now_seconds),
               0, now_seconds)

Step(st, now_seconds) ==
    process_channel_only(FillWindow(TimeoutCheck(st, now_seconds), 0, now_seconds),
                         now_seconds)

simulation_tick ==
    /\ Due("tick")
    /\ running => current_time < MaxTime
    /\ IF ~running
       THEN /\ pending' = Tail(pending)
            /\ UNCHANGED <<is_finishing, current_time, sender, receiver, channel, log, trace>>
       ELSE LET st == [sender |-> sender, receiver |-> receiver, channel |-> channel,
                       log |-> log, trace |-> <<StepStart>>]
            IN IF sender.base = sender.total_packets
               THEN LET st1 == IF ~is_finishing
                               THEN Logged(st, current_time, "DONE",
                                           "All Packets Acknowledged! Simulation Complete...", -1)
                               ELSE st
                        q1  == IF ~is_finishing
                               THEN After(Tail(pending), GracePeriod, "stop")
                               ELSE Tail(pending)
                        st2 == Draining(st1, current_time)
                    IN /\ is_finishing' = TRUE
                       /\ sender' = st2.sender
                       /\ receiver' = st2.receiver
                       /\ channel' = st2.channel
                       /\ log' = st2.log
                       /\ trace' = st2.trace
                       /\ current_time' = current_time + 1
                       /\ pending' = After(q1, TickPeriod, "tick")
               ELSE LET st2 == Step(st, current_time)
                    IN /\ sender' = st2.sender
                       /\ receiver' = st2.receiver
                       /\ channel' = st2.channel
                       /\ log' = st2.log
                       /\ trace' = st2.trace
                       /\ current_time' = current_time + 1
                       /\ pending' = After(Tail(pending), TickPeriod, "tick")
                       /\ UNCHANGED is_finishing
    /\ UNCHANGED <<entries, running>>

\* a second of wall-clock time passes with no callback due
advance_clock ==
    /\ pending # <<>>
    /\ Head(pending).rem > 0
    /\ pending' = [i \in 1..Len(pending) |-> [pending[i] EXCEPT !.rem = @ - 1]]
    /\ UNCHANGED <<entries, running, is_finishing, current_time, sender, receiver,
                   channel, log, trace>>

Next ==
    \/ start_sim
    \/ stop_sim
    \/ auto_stop
    \/ simulation_tick
    \/ advance_clock

-----------------------------------------------------------------------------
(* Configurations *)

IntText(n) == [int |-> TRUE, val |-> n]

DigitToken(n) == [digit |-> TRUE, val |-> n]

RECURSIVE LossText(_)
LossText(S) ==
    IF S = {} THEN <<>>
    ELSE LET m == CHOOSE x \in S : \A y \in S : x <= y
         IN <<DigitToken(m)>> \o LossText(S \ {m})

Config(total, win, timeout, delay, loss_data, loss_ack) ==
    [packets   |-> IntText(total),
     window    |-> IntText(win),
     timeout   |-> IntText(timeout),
     delay     |-> IntText(delay),
     loss_data |-> LossText(loss_data),
     loss_ack  |-> LossText(loss_ack)]

LossSets(total) == {S \in SUBSET (0..(total - 1)) : Cardinality(S) <= MaxLoss}

ConfigsOf(total) ==
    {Config(total, win, timeout, delay, ld, la) :
        win \in 1..MaxWindow, timeout \in 1..MaxTimeout, delay \in 0..MaxDelay,
        ld \in LossSets(total), la \in LossSets(total)}

\* what section 6 of the specification calls a validated configuration
ValidatedConfigs == UNION {ConfigsOf(total) : total \in 1..MaxTotal}

InitWith(configs) ==
    /\ entries \in configs
    /\ running = FALSE
    /\ is_finishing = FALSE
    /\ current_time = 0
    /\ sender = None
    /\ receiver = None
    /\ channel = None
    /\ log = <<>>
    /\ pending = <<>>
    /\ trace = <<>>

Init == InitWith(ValidatedConfigs)

Spec == Init /\ [][Next]_vars

\* Scenario A of the specification: windowSize=1, totalPackets=3, delay=1, timeout=5
ScenarioA == Config(3, 1, 5, 1, {}, {})

\* Scenario B: totalPackets=5, windowSize=5, delay=2, timeout=4, lossData={2}
ScenarioB == Config(5, 5, 4, 2, {2}, {})

\* Scenario C: totalPackets=3, windowSize=3, delay=1, timeout=3, lossAck={0}
ScenarioC == Config(3, 3, 3, 1, {}, {0})

InitA == InitWith({ScenarioA})

InitB == InitWith({ScenarioB})

InitC == InitWith({ScenarioC})

SpecA == InitA /\ [][Next]_vars

SpecB == InitB /\ [][Next]_vars

SpecC == InitC /\ [][Next]_vars

-----------------------------------------------------------------------------
(* Reading the last step and the log *)

Entries(op) == {i \in DOMAIN trace : trace[i].op = op}

Max(S, default) == IF S = {} THEN default ELSE CHOOSE x \in S : \A y \in S : y <= x

Min(S, default) == IF S = {} THEN default ELSE CHOOSE x \in S : \A y \in S : x <= y

Count(list, x) == Cardinality({i \in DOMAIN list : list[i] = x})

\* the entry of kind op before entry i, 0 if there is none
Previous(op, i) == Max({j \in Entries(op) : j < i}, 0)

Lines(msgs, seq) == {i \in DOMAIN log : log[i].msg \in msgs /\ log[i].seq = seq}

LinesOf(msgs) == {i \in DOMAIN log : log[i].msg \in msgs}

\* the log lines of a DATA packet offered to the channel, and of those it dropped
DataOffered ==
    {"Sender Data", "Sender Data DROPPED", "Retransmitting Data",
     "Retransmission Data DROPPED"}

DataDropped == {"Sender Data DROPPED", "Retransmission Data DROPPED"}

DataRetransmitted == {"Retransmitting Data", "Retransmission Data DROPPED"}

\* the log line of a DATA packet accepted, which offers its ACK to the channel;
\* the line "ACK Dropped by Channel" follows it when the channel dropped that ACK
Accepted == {"Receiver Data (Expected). Sending ACK."}

AckDropped(i) ==
    i + 1 <= Len(log) /\ log[i + 1].msg = "ACK Dropped by Channel"
        /\ log[i + 1].seq = log[i].seq

AckReceived == {"Sender received ACK"}

\* the tick of the last offer of DATA seq to the channel, -1 if there was none
LastTransmission(seq) == Max({log[i].time : i \in Lines(DataOffered, seq)}, -1)

\* the ACKs that advanced base: those above every ACK received before them
AdvancingAcks ==
    {i \in LinesOf(AckReceived) :
        \A j \in LinesOf(AckReceived) : j < i => log[j].seq < log[i].seq}

\* the tick of the last ACK that advanced base, -1 if there was none
LastAdvance == Max({log[i].time : i \in AdvancingAcks}, -1)

-----------------------------------------------------------------------------
(* C1 *)

\* C1: at every tick boundary, for every validated configuration,
\* 0 <= base <= nextSeq <= totalPackets and nextSeq - base <= windowSize.
C1_WindowBounds ==
    sender # None =>
        /\ 0 <= sender.base
        /\ sender.base <= sender.next_seq
        /\ sender.next_seq <= sender.total_packets
        /\ sender.next_seq - sender.base <= sender.window_size

\* a full window that has already slid and has packets left to originate
C1_FullWindowSlid ==
    /\ sender # None
    /\ sender.base > 0
    /\ sender.next_seq - sender.base = sender.window_size
    /\ sender.next_seq < sender.total_packets

-----------------------------------------------------------------------------
(* C2 *)

\* C2: an ACK k dispatched to the sender with k >= base leaves base = k + 1,
\* whether or not the ACKs between the old base and k were received, and one with
\* k < base leaves base as it was; nothing else in a step changes base.
C2_CumulativeAck ==
    /\ \A i \in Entries("ack") :
          /\ trace[i].base0 =
                (IF Previous("ack", i) = 0 THEN trace[1].sender.base
                 ELSE trace[Previous("ack", i)].base1)
          /\ trace[i].base1 =
                (IF trace[i].seq_num >= trace[i].base0 THEN trace[i].seq_num + 1
                 ELSE trace[i].base0)
    /\ trace # <<>> =>
          sender.base =
             (IF Entries("ack") = {} THEN trace[1].sender.base
              ELSE trace[Max(Entries("ack"), 0)].base1)
    /\ sender # None => sender.base = Max({log[i].seq + 1 : i \in LinesOf(AckReceived)}, 0)

\* an ACK moved base over several packets, no ACK for the old base ever received
C2_SkippedAck ==
    \E i \in Entries("ack") :
        /\ trace[i].seq_num > trace[i].base0
        /\ sender.base = trace[i].seq_num + 1
        /\ Lines(AckReceived, trace[i].base0) = {}

-----------------------------------------------------------------------------
(* C3 *)

\* C3: (trigger) while packets are outstanding and no ACK has advanced base since
\* the tick of the last (re)transmission of the base packet, that packet is never
\* left more than timeout seconds without the timeout event; (effect) a timeout
\* event offers every packet of [base, nextSeq) to the channel exactly once, in
\* order, adds 1 to retransmissions and nextSeq - base to duplicatePackets and
\* resets timerStart to the current tick; the two counters change in no other way.
C3_FullWindowRetransmission ==
    /\ (sender # None /\ sender.base < sender.next_seq
            /\ LastAdvance <= LastTransmission(sender.base))
          => current_time - LastTransmission(sender.base) <= sender.timeout
    /\ \A i \in Entries("timeout") :
          LET e == trace[i]
              n == e.next_seq - e.base
          IN /\ n > 0
             /\ e.base = trace[1].sender.base
             /\ e.next_seq = trace[1].sender.next_seq
             /\ e.retransmissions1 = trace[1].sender.retransmissions + 1
             /\ e.duplicate_pkts1 = trace[1].sender.duplicate_pkts + n
             /\ e.timer_start = e.time
             /\ i = n + 2
             /\ \A k \in 0..(n - 1) :
                   LET o == trace[2 + k]
                   IN /\ o.op = "offer"
                      /\ o.cause = "retransmit"
                      /\ o.type = "DATA"
                      /\ o.seq_num = e.base + k
    /\ \A i \in Entries("offer") :
          trace[i].cause = "retransmit" => i < Max(Entries("timeout"), 0)
    /\ trace # <<>> =>
          /\ Cardinality(Entries("timeout")) <= 1
          /\ sender.retransmissions =
                trace[1].sender.retransmissions + Cardinality(Entries("timeout"))
          /\ sender.duplicate_pkts =
                trace[1].sender.duplicate_pkts
                   + Cardinality({i \in Entries("offer") : trace[i].cause = "retransmit"})

\* a second timeout, exactly timeout seconds after the first, that retransmitted
\* a window of several packets
C3_WindowRetransmitted ==
    \E i \in Entries("timeout") :
        /\ trace[i].next_seq - trace[i].base >= 2
        /\ trace[i].retransmissions1 = 2
        /\ sender.base = trace[i].base
        /\ \E j \in Lines(DataRetransmitted, sender.base) :
              log[j].time = trace[i].time - sender.timeout

-----------------------------------------------------------------------------
(* C4 *)

InitialLoss(type) ==
    IF type = "DATA" THEN ParseLossList(entries.loss_data)
    ELSE ParseLossList(entries.loss_ack)

\* C4: an offer is dropped exactly when its sequence number is in the loss list of
\* its kind; a drop removes one entry of that number from that list and leaves
\* the other list as it was, an enqueued offer changes neither; so over the run,
\* for a number listed once, the first offer of that kind is dropped and every
\* later one is enqueued, and a number that is not listed is never dropped.
C4_OneShotLoss ==
    /\ \A i \in Entries("offer") :
          LET e == trace[i]
              mine0 == IF e.type = "DATA" THEN e.loss_data0 ELSE e.loss_ack0
              mine1 == IF e.type = "DATA" THEN e.loss_data1 ELSE e.loss_ack1
              other0 == IF e.type = "DATA" THEN e.loss_ack0 ELSE e.loss_data0
              other1 == IF e.type = "DATA" THEN e.loss_ack1 ELSE e.loss_data1
          IN /\ (e.status = "DROP") <=> Contains(mine0, e.seq_num)
             /\ other1 = other0
             /\ e.status = "SENT" => mine1 = mine0
             /\ e.status = "DROP" => mine1 = RemoveFirst(mine0, e.seq_num)
             /\ e.cause = "reack" => e.status = "SENT"
    /\ \A i \in LinesOf(DataOffered) :
          (log[i].msg \in DataDropped) <=>
              /\ Count(InitialLoss("DATA"), log[i].seq) = 1
              /\ i = Min(Lines(DataOffered, log[i].seq), 0)
    /\ \A i \in LinesOf(Accepted) :
          AckDropped(i) <=>
              /\ Count(InitialLoss("ACK"), log[i].seq) = 1
              /\ i = Min(Lines(Accepted, log[i].seq), 0)

\* DATA s was dropped once and enqueued when retransmitted, and then ACK s, listed
\* too, was dropped in its turn
C4_DroppedThenSent ==
    \E i \in LinesOf({"Sender Data DROPPED"}) :
        /\ Count(InitialLoss("ACK"), log[i].seq) = 1
        /\ \E j \in Lines({"Retransmitting Data"}, log[i].seq) : i < j
        /\ \E j \in Lines(Accepted, log[i].seq) : AckDropped(j)

-----------------------------------------------------------------------------
(* C5 *)

\* C5: within a run expectedSeq changes only when DATA is dispatched to the
\* receiver: by exactly +1 when the packet's seq equals expectedSeq, not at all
\* for a duplicate or an out-of-order packet; so it never decreases, and it
\* counts the packets accepted.
C5_ExpectedSeq ==
    /\ \A i \in Entries("data") :
          /\ trace[i].expected0 =
                (IF Previous("data", i) = 0 THEN trace[1].receiver.expected_seq
                 ELSE trace[Previous("data", i)].expected1)
          /\ trace[i].expected1 =
                (IF trace[i].seq_num = trace[i].expected0
                 THEN trace[i].expected0 + 1 ELSE trace[i].expected0)
    /\ trace # <<>> =>
          /\ receiver.expected_seq =
                (IF Entries("data") = {} THEN trace[1].receiver.expected_seq
                 ELSE trace[Max(Entries("data"), 0)].expected1)
          /\ receiver.expected_seq >= trace[1].receiver.expected_seq
    /\ receiver # None =>
          receiver.expected_seq = Cardinality(LinesOf(Accepted))

\* a run that has discarded an out-of-order packet and ignored a duplicate, and
\* whose last step accepted a packet after leaving another one unaccepted
C5_AllThreeKinds ==
    /\ LinesOf({"Receiver Data (Out of Order). Discard."}) # {}
    /\ LinesOf({"Receiver Data (Duplicate). Ignore."}) # {}
    /\ \E i, j \in Entries("data") :
          /\ i < j
          /\ trace[i].seq_num # trace[i].expected0
          /\ trace[j].seq_num = trace[j].expected0

-----------------------------------------------------------------------------
(* C6, C7: scenario B, under SpecB *)

TimedOut == {"Timeout Packet"}

OutOfOrder == {"Receiver Data (Out of Order). Discard."}

Duplicate == {"Receiver Data (Duplicate). Ignore."}

Done == {"All Packets Acknowledged! Simulation Complete..."}

C7_ScenarioBDelivery ==
    sender # None =>
        /\ LinesOf(DataDropped) = Lines({"Sender Data DROPPED"}, 2)
        /\ Cardinality(Lines(DataDropped, 2)) = (IF current_time >= 1 THEN 1 ELSE 0)
        /\ \A i \in LinesOf(DataDropped) :
              log[i].time = 0 /\ i = Min(Lines(DataOffered, 2), 0)
        /\ \A i \in LinesOf(OutOfOrder) : log[i].seq \in {3, 4} /\ log[i].time = 3
        /\ current_time \in 4..7 =>
              /\ receiver.expected_seq = 2
              /\ Lines(OutOfOrder, 3) # {}
              /\ Lines(OutOfOrder, 4) # {}
        /\ current_time <= 7 => receiver.expected_seq <= 2
        /\ \A i \in Lines(Accepted, 2) :
              /\ log[i].time = 7
              /\ \E j \in Lines({"Retransmitting Data"}, 2) : j < i /\ log[j].time = 4
        /\ current_time >= 8 => Lines(Accepted, 2) # {}
        /\ current_time >= 10 =>
              sender.base = 5 /\ receiver.delivered_count = 5

\* the run is through: DATA 2 dropped once and accepted later, everything delivered
C7_AllDelivered ==
    /\ sender # None
    /\ Lines(DataDropped, 2) # {}
    /\ Lines(Accepted, 2) # {}
    /\ sender.base = 5
    /\ receiver.delivered_count = 5

-----------------------------------------------------------------------------
(* C8, C9: scenario C, under SpecC *)

\* C8: in scenario C (3 packets, window 3, delay 1, timeout 3, ACK 0 lost once)
\* base is 0 until tick 3 and 3 after it; it leaves 0 in tick 3, after that tick's
\* timeout has retransmitted the window, when the sender receives ACK 1, which
\* the receiver sent in tick 2 for the first transmission of DATA 1, and goes
\* from 0 to 2; no ACK 0 ever reaches the sender and base is never 1.
C8_BaseLeavesZeroOnAck1 ==
    sender # None =>
        /\ Lines(AckReceived, 0) = {}
        /\ sender.base = (IF current_time <= 3 THEN 0 ELSE 3)
        /\ \A i \in Entries("ack") :
              /\ trace[i].base1 # 1
              /\ trace[i].base0 = 0 =>
                    /\ trace[i].seq_num = 1
                    /\ trace[i].base1 = 2
                    /\ trace[i].time = 3
                    /\ \E j \in Entries("timeout") : j < i /\ trace[j].base = 0
        /\ \A i \in LinesOf(AckReceived) : log[i].time = 3
        /\ \A i \in Lines(Accepted, 1) : log[i].time = 2 /\ ~AckDropped(i)
        /\ \A i \in LinesOf(TimedOut) : log[i].time = 3

\* the step of tick 3: a timeout, then ACK 1 takes base from 0 to 2
C8_Ack1MovedBase ==
    /\ sender # None
    /\ sender.base = 3
    /\ \E i \in Entries("ack") :
          /\ trace[i].base0 = 0
          /\ trace[i].seq_num = 1
          /\ \E j \in Entries("timeout") : j < i

\* C8 as stated: base has left 0 only if the sender has received an ACK 0 that
\* follows the retransmission of DATA 0.
C8_BaseWaitsForAck0 ==
    (sender # None /\ sender.base > 0) =>
        \E i \in Lines(AckReceived, 0) :
            \E j \in Lines(DataRetransmitted, 0) : j < i

\* C9: in scenario C the channel drops ACK 0 once, in tick 1, and no other ACK;
\* the DATA 0 sent in tick 0 is accepted in tick 1; the DATA 0 retransmitted in
\* tick 3 is dispatched in tick 4 as a duplicate, in a step that changes nothing
\* in the receiver and offers no ACK to the channel; once tick 3 is done base = 3.
C9_ScenarioCOutcome ==
    sender # None =>
        /\ Cardinality(LinesOf({"ACK Dropped by Channel"})) =
              (IF current_time >= 2 THEN 1 ELSE 0)
        /\ \A i \in LinesOf(Accepted) : AckDropped(i) <=> log[i].seq = 0
        /\ \A i \in Lines(Accepted, 0) : log[i].time = 1
        /\ Cardinality(Lines(Accepted, 0)) = (IF current_time >= 2 THEN 1 ELSE 0)
        /\ \A i \in Entries("data") :
              trace[i].seq_num = 0 =>
                 IF trace[i].send_time = 0
                 THEN /\ trace[i].time = 1
                      /\ trace[i].expected0 = 0
                      /\ trace[i].expected1 = 1
                 ELSE /\ trace[i].send_time = Fifth(3)
                      /\ trace[i].time = 4
                      /\ trace[i].expected0 = 3
                      /\ receiver = trace[1].receiver
                      /\ \A j \in Entries("offer") : trace[j].type # "ACK"
        /\ \A i \in Lines(Duplicate, 0) : log[i].time = 4
        /\ Cardinality(Lines(Duplicate, 0)) = (IF current_time >= 5 THEN 1 ELSE 0)
        /\ LinesOf({"Receiver re-sending ACK"}) = {}
        /\ current_time >= 4 => sender.base = 3

\* the step of tick 4: the retransmitted DATA 0 is dispatched, base being 3
C9_DuplicateIgnored ==
    /\ sender # None
    /\ sender.base = 3
    /\ \E i \in LinesOf(Accepted) : AckDropped(i)
    /\ \E i \in Entries("data") : trace[i].seq_num = 0 /\ trace[i].send_time > 0

-----------------------------------------------------------------------------
(* C10: scenario A, under SpecA *)

\* C10: in scenario A (3 packets, window 1, delay 1, timeout 5, no loss) the
\* receiver accepts packets 0, 1, 2 in that order, in the ticks 1, 4 and 7; no
\* timeout fires and retransmissions stays 0; once tick 8 is done base = 3, and
\* tick 9 logs the completion and sets the finishing flag.
C10_ScenarioA ==
    sender # None =>
        /\ \A i, j \in LinesOf(Accepted) : i < j => log[i].seq < log[j].seq
        /\ \A i \in LinesOf(Accepted) : log[i].time = 1 + 3 * log[i].seq
        /\ {log[i].seq : i \in LinesOf(Accepted)} =
              {k \in 0..2 : 1 + 3 * k < current_time}
        /\ LinesOf(TimedOut) = {}
        /\ LinesOf(DataRetransmitted) = {}
        /\ sender.retransmissions = 0
        /\ sender.duplicate_pkts = 0
        /\ current_time >= 9 => sender.base = 3
        /\ current_time >= 10 => LinesOf(Done) # {}
        /\ (running /\ current_time >= 10) => is_finishing

\* the run is in its completion phase with nothing retransmitted
C10_Completed ==
    /\ sender # None
    /\ running
    /\ is_finishing
    /\ sender.base = 3
    /\ Cardinality(LinesOf(Accepted)) = 3
    /\ sender.retransmissions = 0

-----------------------------------------------------------------------------
(* C11, C12: the sender's buffer and timer *)

\* C11 as stated: in every reachable state the keys of the sender's buffer are
\* exactly the sequence numbers of [base, nextSeq).
C11_BufferKeysAreWindow ==
    sender # None =>
        DOMAIN sender.buffer = sender.base..(sender.next_seq - 1)

\* C12: at every tick boundary timerStart is set (not -1) exactly when
\* base # nextSeq; a step that finds the window empty and originates packets
\* leaves the timer started in that tick, a timeout restarts it in its tick, an
\* ACK that advances base restarts it in its tick when packets stay outstanding
\* and clears it when the window empties.
C12_TimerActiveIffOutstanding ==
    /\ sender # None =>
          (sender.timer_start # -1 <=> sender.base # sender.next_seq)
    /\ \A i \in Entries("timeout") : trace[i].timer_start = trace[i].time
    /\ \A i \in Entries("ack") :
          trace[i].base1 > trace[i].base0 =>
             trace[i].timer_start1 =
                (IF trace[i].base1 < trace[i].next_seq THEN trace[i].time ELSE -1)
    /\ (/\ trace # <<>>
        /\ trace[1].sender.base = trace[1].sender.next_seq
        /\ \E i \in Entries("offer") : trace[i].cause = "new")
          => /\ trace[1].sender.timer_start = -1
             /\ sender.timer_start = trace[1].time

\* a window emptied by an ACK earlier in the run and refilled by the last step,
\* which started the timer again
C12_TimerRestartedAfterEmpty ==
    /\ trace # <<>>
    /\ trace[1].sender.base > 0
    /\ trace[1].sender.base = trace[1].sender.next_seq
    /\ trace[1].sender.timer_start = -1
    /\ sender.base < sender.next_seq
    /\ sender.timer_start = trace[1].time

-----------------------------------------------------------------------------
(* C13: the steps of a run whose packets are all acknowledged *)

DueItems(queue, now_seconds) ==
    {k \in 1..Len(queue) : Fifth(now_seconds) >= queue[k].arrival_time}

\* C13: a step that finds base = totalPackets checks no timer and offers no DATA
\* packet, leaves retransmissions, duplicatePackets, nextSeq and base as they are,
\* dispatches every packet whose arrival time has passed and leaves none of them
\* in the channel, and advances the clock by one; it sets the finishing flag, and
\* while the run goes on the flag stays set and base stays at totalPackets, so
\* every later step is such a step.
C13_DrainingOnly ==
    [][/\ (running /\ sender.base = sender.total_packets
              /\ current_time' = current_time + 1)
          => /\ is_finishing'
             /\ \A i \in DOMAIN trace' :
                   /\ trace'[i].op # "timeout"
                   /\ trace'[i].op = "offer" => trace'[i].type # "DATA"
             /\ sender'.retransmissions = sender.retransmissions
             /\ sender'.duplicate_pkts = sender.duplicate_pkts
             /\ sender'.next_seq = sender.next_seq
             /\ sender'.base = sender.base
             /\ DueItems(channel'.packet_queue, current_time) = {}
             /\ Len(trace') = 1 + Cardinality(DueItems(channel.packet_queue, current_time))
             /\ Len(channel'.packet_queue) =
                   Len(channel.packet_queue)
                      - Cardinality(DueItems(channel.packet_queue, current_time))
       /\ (is_finishing /\ running')
          => /\ is_finishing'
             /\ sender'.base = sender'.total_packets
             /\ sender'.retransmissions = sender.retransmissions
             /\ sender'.duplicate_pkts = sender.duplicate_pkts
             /\ sender'.next_seq = sender.next_seq
      ]_vars

\* a step of a run already finishing has dispatched a late duplicate, after the
\* run had retransmitted
C13_DrainedLateDuplicate ==
    /\ running
    /\ is_finishing
    /\ trace # <<>>
    /\ trace[1].is_finishing
    /\ sender.retransmissions > 0
    /\ \E i \in Entries("data") : trace[i].seq_num < trace[i].expected0

-----------------------------------------------------------------------------
(* C14: a run left to itself, under SpecUnattended *)

\* the START button pressed when no callback of an earlier run is pending
start_when_idle == pending = <<>> /\ start_sim

\* the program with the STOP button never pressed
NextUnattended ==
    \/ start_when_idle
    \/ auto_stop
    \/ simulation_tick
    \/ advance_clock

SpecUnattended == Init /\ [][NextUnattended]_vars

DoneTime == log[CHOOSE i \in LinesOf(Done) : TRUE].time

Stopped == {"--- Simulation Stopped ---"}

CallbackAt(cb) == CHOOSE k \in DOMAIN pending : pending[k].cb = cb

\* the completion is logged at most once; while the run is finishing, the stop
\* callback is pending and comes due 5 seconds after the tick that logged the
\* completion, ahead of the tick due in the same second; a stopped run has logged
\* the completion once and stopped 5 ticks after it
GraceInvariant ==
    /\ Cardinality(LinesOf(Done)) <= 1
    /\ is_finishing =>
          /\ running
          /\ Cardinality(LinesOf(Done)) = 1
          /\ current_time \in (DoneTime + 1)..(DoneTime + GracePeriod)
          /\ {pending[k].cb : k \in DOMAIN pending} = {"stop", "tick"}
          /\ Len(pending) = 2
          /\ pending[CallbackAt("stop")].rem =
                pending[CallbackAt("tick")].rem + GracePeriod - (current_time - DoneTime)
          /\ current_time = DoneTime + GracePeriod => CallbackAt("stop") < CallbackAt("tick")
    /\ (sender # None /\ ~running) =>
          /\ Cardinality(LinesOf(Done)) = 1
          /\ current_time = DoneTime + GracePeriod
          /\ log[Len(log)].msg \in Stopped
          /\ log[Len(log)].time = DoneTime + GracePeriod
          /\ \A k \in DOMAIN pending : pending[k].cb = "tick"

-----------------------------------------------------------------------------
(* C15: any text in the entries, under SpecAnyText *)

\* text that int() refuses
NotInteger == [int |-> FALSE, val |-> 0]

\* an item of a loss list that str.isdigit() refuses
Malformed == [digit |-> FALSE, val |-> 0]

NumberTexts == {IntText(n) : n \in (0 - 1)..MaxWindow} \cup {NotInteger}

LossTexts == {<<>>, <<Malformed>>, <<DigitToken(0), Malformed>>}

AnyTextConfigs ==
    {[packets   |-> p,
      window    |-> w,
      timeout   |-> t,
      delay     |-> IntText(MaxDelay),
      loss_data |-> ld,
      loss_ack  |-> <<>>] :
        p \in NumberTexts, w \in NumberTexts, t \in NumberTexts, ld \in LossTexts}

InitAnyText == InitWith(AnyTextConfigs)

SpecAnyText == InitAnyText /\ [][Next]_vars

\* a configuration that section 6 of the specification does not allow
Invalid(e) ==
    \/ ~Int4(e)
    \/ e.packets.val <= 0
    \/ e.window.val <= 0
    \/ e.timeout.val <= 0
    \/ \E i \in DOMAIN e.loss_data : ~e.loss_data[i].digit
    \/ \E i \in DOMAIN e.loss_ack : ~e.loss_ack[i].digit

\* C15 as stated: with a non-positive totalPackets, windowSize or timeout, or a
\* malformed loss list, no Channel, Sender or Receiver is ever constructed, the
\* program never runs and no step is executed.
C15_InvalidRejected ==
    Invalid(entries) =>
        /\ sender = None
        /\ receiver = None
        /\ channel = None
        /\ ~running
        /\ current_time = 0
        /\ trace = <<>>

-----------------------------------------------------------------------------
(* C16: the ACK of the last packet lost *)

LastAckListed ==
    /\ sender # None
    /\ Contains(IntsOf(entries.loss_ack), sender.total_packets - 1)

\* C16: in a validated configuration whose lossAck holds totalPackets - 1, base
\* never reaches totalPackets and the run never completes: the ACK of the last
\* packet is offered once, when the packet is accepted, and dropped; no ACK is
\* sent for the duplicates that follow; and once the receiver has accepted every
\* packet the sender always has packets outstanding and its timer running, no
\* more than timeout seconds from the next timeout.
C16_LastAckLostStalls ==
    LastAckListed =>
        LET last == sender.total_packets - 1
        IN /\ sender.base < sender.total_packets
           /\ ~is_finishing
           /\ LinesOf(Done) = {}
           /\ Lines(AckReceived, last) = {}
           /\ Cardinality(Lines(Accepted, last)) <= 1
           /\ \A i \in Lines(Accepted, last) : AckDropped(i)
           /\ LinesOf({"Receiver re-sending ACK"}) = {}
           /\ \A i \in Entries("data") :
                 trace[i].seq_num < trace[i].expected0 =>
                    (i < Len(trace) => trace[i + 1].op # "offer")
           /\ receiver.expected_seq = sender.total_packets =>
                 /\ sender.next_seq = sender.total_packets
                 /\ sender.timer_start # -1
                 /\ current_time - sender.timer_start <= sender.timeout
                 /\ Cardinality(Lines(Accepted, last)) = 1

\* the receiver has everything, and the sender has timed out three times and seen
\* the last packet ignored as a duplicate twice
C16_StalledRetransmitting ==
    /\ LastAckListed
    /\ receiver.expected_seq = sender.total_packets
    /\ sender.retransmissions >= 3
    /\ Cardinality(Lines(Duplicate, sender.total_packets - 1)) >= 2

-----------------------------------------------------------------------------
(* C17: no ACK loss *)

\* ticks enough for any run without ACK loss: 2 * delay + 2 per packet, and one
\* timeout more for each DATA packet the channel is to drop
CompletionBound(e) ==
    e.packets.val * (2 * e.delay.val + 2) + Len(e.loss_data) * e.timeout.val

AckInFlight(seq) ==
    \E k \in DOMAIN channel.packet_queue :
        /\ channel.packet_queue[k].pkt.type = "ACK"
        /\ channel.packet_queue[k].pkt.seq_num = seq

\* C17: in a validated configuration with an empty lossAck the run is never
\* stuck: as long as the sender is behind the receiver the ACK of the last
\* accepted packet is on its way, and as long as packets are outstanding the
\* timer runs and is at most timeout seconds old; and after
\* totalPackets * (2 * delay + 2) + |lossData| * timeout ticks, base =
\* totalPackets and deliveredCount = totalPackets.
C17_CompletesWithoutAckLoss ==
    (sender # None /\ entries.loss_ack = <<>>) =>
        /\ sender.base < receiver.expected_seq => AckInFlight(receiver.expected_seq - 1)
        /\ sender.base < sender.next_seq =>
              /\ sender.timer_start # -1
              /\ current_time - sender.timer_start <= sender.timeout
        /\ sender.base = sender.next_seq => sender.base = receiver.expected_seq
        /\ sender.base = sender.total_packets =>
              receiver.delivered_count = sender.total_packets
        /\ current_time >= CompletionBound(entries) =>
              /\ sender.base = sender.total_packets
              /\ receiver.delivered_count = sender.total_packets

\* a run that lost a DATA packet, timed out and completed no earlier than the
\* last tick the bound allows
C17_CompletedAfterLoss ==
    /\ sender # None
    /\ entries.loss_ack = <<>>
    /\ entries.loss_data # <<>>
    /\ sender.retransmissions > 0
    /\ sender.base = sender.total_packets
    /\ receiver.delivered_count = sender.total_packets
    /\ current_time = CompletionBound(entries)
    /\ trace # <<>>
    /\ trace[1].sender.base < sender.total_packets

-----------------------------------------------------------------------------
(* C18: the sender, the receiver and the packets in flight *)

\* the sequence numbers of the packets accepted, in the order of the log
RECURSIVE SeqsOf(_, _)
SeqsOf(lines, msgs) ==
    IF lines = <<>> THEN <<>>
    ELSE IF Head(lines).msg \in msgs
    THEN <<Head(lines).seq>> \o SeqsOf(Tail(lines), msgs)
    ELSE SeqsOf(Tail(lines), msgs)

\* C18: in every reachable state base <= expectedSeq <= nextSeq and
\* deliveredCount = expectedSeq; every ACK in flight carries a seq below
\* expectedSeq and every DATA packet in flight one below nextSeq; and the packets
\* accepted so far are 0, 1, ..., expectedSeq - 1, each once, in that order.
C18_SenderBehindReceiver ==
    sender # None =>
        /\ sender.base <= receiver.expected_seq
        /\ receiver.expected_seq <= sender.next_seq
        /\ receiver.delivered_count = receiver.expected_seq
        /\ \A k \in DOMAIN channel.packet_queue :
              LET item == channel.packet_queue[k]
              IN /\ item.pkt.type = "ACK" =>
                       /\ item.pkt.seq_num < receiver.expected_seq
                       /\ item.pkt.seq_num >= 0
                       /\ item.dest = "Sender"
                 /\ item.pkt.type = "DATA" =>
                       /\ item.pkt.seq_num < sender.next_seq
                       /\ item.dest = "Receiver"
        /\ SeqsOf(log, Accepted) = [k \in 1..receiver.expected_seq |-> k - 1]

\* the receiver ahead of the sender and behind what was sent, an ACK and a
\* retransmitted copy of an accepted packet both in flight
C18_StrictlyBetween ==
    /\ sender # None
    /\ sender.base < receiver.expected_seq
    /\ receiver.expected_seq < sender.next_seq
    /\ sender.retransmissions > 0
    /\ \E k \in DOMAIN channel.packet_queue : channel.packet_queue[k].pkt.type = "ACK"
    /\ \E k \in DOMAIN channel.packet_queue :
          /\ channel.packet_queue[k].pkt.type = "DATA"
          /\ channel.packet_queue[k].pkt.seq_num < receiver.expected_seq

-----------------------------------------------------------------------------
(* C19: the order inside a step *)

DueAcks(queue, now_seconds) ==
    {k \in DueItems(queue, now_seconds) : queue[k].pkt.type = "ACK"}

\* C19: in the step of tick t the timeout is decided on the sender as the step
\* found it, whatever ACKs are due; the timeout's retransmissions come first, then
\* the newly originated packets, then the dispatch of the arrivals; the ACKs
\* dispatched are exactly the ACKs that were in the channel and due when the step
\* began, and every ACK the step enqueues is still in the channel when it ends.
C19_TimerAndFillBeforeDrain ==
    [][(running /\ current_time' = current_time + 1) =>
          LET T == trace'
              Of(ops) == {i \in DOMAIN T : T[i].op \in ops}
              Sent(cause) == {i \in Of({"offer"}) : T[i].cause = cause}
          IN /\ (Of({"timeout"}) # {}) <=>
                   /\ sender.base # sender.total_packets
                   /\ sender.base # sender.next_seq
                   /\ current_time - sender.timer_start >= sender.timeout
             /\ \A i \in Sent("retransmit") : \A j \in Of({"timeout"}) : i < j
             /\ \A i \in Of({"timeout"}) : \A j \in Sent("new") : i < j
             /\ \A i \in Sent("retransmit") \cup Sent("new") \cup Of({"timeout"}) :
                   \A j \in Of({"data", "ack"}) \cup Sent("ack") \cup Sent("reack") : i < j
             /\ Cardinality(Of({"ack"})) =
                   Cardinality(DueAcks(channel.packet_queue, current_time))
             /\ \A i \in Sent("ack") \cup Sent("reack") :
                   T[i].status = "SENT" =>
                      \E k \in DOMAIN channel'.packet_queue :
                         /\ channel'.packet_queue[k].pkt.type = "ACK"
                         /\ channel'.packet_queue[k].pkt.seq_num = T[i].seq_num
                         /\ channel'.packet_queue[k].arrival_time =
                               T[i].send_time + Fifth(channel.delay)
      ]_vars

\* with delay 0: a step that timed out although an ACK for its base packet was
\* due, received that ACK afterwards, and left in the channel an ACK it enqueued
\* whose arrival time has already passed
C19_TimeoutDespiteDueAck ==
    /\ trace # <<>>
    /\ \E i \in Entries("timeout") :
          \E j \in Entries("ack") : i < j /\ trace[j].seq_num >= trace[i].base
    /\ \E i \in Entries("offer") :
          /\ trace[i].type = "ACK"
          /\ trace[i].status = "SENT"
          /\ \E k \in DOMAIN channel.packet_queue :
                /\ channel.packet_queue[k].pkt.type = "ACK"
                /\ channel.packet_queue[k].pkt.seq_num = trace[i].seq_num
                /\ channel.packet_queue[k].arrival_time <= Fifth(trace[1].time)

-----------------------------------------------------------------------------
(* C20: the send times of a tick's DATA packets *)

DataOffers == {i \in Entries("offer") : trace[i].type = "DATA"}

\* C20 as stated: the DATA packets offered to the channel in one tick, the
\* retransmitted window and then the new packets, have strictly increasing send
\* timestamps in the order of their offers.
C20_IncreasingSendTimes ==
    \A i, j \in DataOffers : i < j => trace[i].send_time < trace[j].send_time

-----------------------------------------------------------------------------
(* C21: the tags of the lines that report what the channel did with a packet *)

\* the log lines of the last step that carry one of the tags
StepLines(tags) ==
    LET OfStep(line) == line.time = trace[1].time /\ line.tag \in tags
    IN SelectSeq(log, OfStep)

\* the offers of the last step with one of the statuses, in order
StepOffers(statuses) ==
    LET IsOffer(e) == e.op = "offer" /\ e.status \in statuses
    IN SelectSeq(trace, IsOffer)

\* C21 as stated: every DATA packet the channel accepts, a first transmission
\* or a timeout retransmission, is reported by a SEND-tagged line, and the
\* LOSS-tagged lines of a step are exactly its dropped packets (DATA or ACK),
\* one line per drop, in the order of the drops.
C21_TagsReportOutcome ==
    trace # <<>> =>
        /\ \A i \in DataOffers :
              trace[i].status = "SENT" =>
                  \E k \in DOMAIN StepLines({"SEND"}) :
                      StepLines({"SEND"})[k].seq = trace[i].seq_num
        /\ Len(StepLines({"LOSS"})) = Len(StepOffers({"DROP"}))
        /\ \A k \in DOMAIN StepLines({"LOSS"}) :
              StepLines({"LOSS"})[k].seq = StepOffers({"DROP"})[k].seq_num

-----------------------------------------------------------------------------
(* C22: the ACK the receiver remembers, and the ACKs it offers to the channel *)

Suppressed == {"Receiver sent ACK. Suppress duplicate."}

Resent == {"Receiver re-sending ACK"}

AckOffers == {i \in Entries("offer") : trace[i].type = "ACK"}

AcksInFlight ==
    {k \in DOMAIN channel.packet_queue : channel.packet_queue[k].pkt.type = "ACK"}

\* C22: in every state of a run last_ack_sent = expected_seq - 1.  So an
\* out-of-order DATA packet is never answered by a re-sent ACK: when a packet
\* was accepted before it, its log line is followed by the line that suppresses
\* ACK expected_seq - 1.  Every ACK offered to the channel is the ACK of the
\* DATA packet accepted just before the offer; each sequence number below
\* expected_seq was accepted, and so had its ACK offered, exactly once, and no
\* other was: the ACKs dropped, received and in flight are expected_seq in all.
C22_AckOfferedOnce ==
    receiver # None =>
        /\ receiver.last_ack_sent = receiver.expected_seq - 1
        /\ LinesOf(Resent) = {}
        /\ \A i \in LinesOf(OutOfOrder) :
              \/ /\ i < Len(log)
                 /\ log[i + 1].msg \in Suppressed
                 /\ log[i + 1].seq < log[i].seq
              \/ \A j \in LinesOf(Accepted) : j > i
        /\ \A i \in AckOffers :
              /\ trace[i].cause = "ack"
              /\ trace[i - 1].op = "data"
              /\ trace[i - 1].seq_num = trace[i].seq_num
              /\ trace[i - 1].expected0 = trace[i].seq_num
              /\ trace[i - 1].expected1 = trace[i].seq_num + 1
        /\ \A seq \in 0..(receiver.expected_seq - 1) :
              Cardinality(Lines(Accepted, seq)) = 1
        /\ \A i \in LinesOf(Accepted) : log[i].seq < receiver.expected_seq
        /\ Cardinality(LinesOf({"ACK Dropped by Channel"}))
              + Cardinality(LinesOf(AckReceived)) + Cardinality(AcksInFlight)
              = receiver.expected_seq

\* a step in which a packet arrived out of order after another had been
\* accepted, and the receiver suppressed the duplicate ACK
C22_SuppressedAfterOutOfOrder ==
    /\ trace # <<>>
    /\ \E i \in Entries("data") :
          /\ trace[i].seq_num > trace[i].expected0
          /\ trace[i].expected0 > 0
    /\ LinesOf(Suppressed) # {}
    /\ receiver.last_ack_sent = receiver.expected_seq - 1

-----------------------------------------------------------------------------
(* C23: callbacks left over from an earlier run *)

\* the simulation_tick callbacks in Tk's timer queue: one per tick chain
TickCallbacks(queue) == {k \in DOMAIN queue : queue[k].cb = "tick"}

\* C23 as stated: a callback scheduled during one run has no effect on a run
\* started later.  Every step of a run leaves exactly one simulation_tick
\* callback pending, so the run is stepped by one tick chain, once per second;
\* and stop_sim run as a callback stops only a run that is finishing, when its
\* own grace period of 5 ticks since its completion has passed.
C23_RunsIsolated ==
    [][/\ (running /\ current_time' = current_time + 1) =>
             Cardinality(TickCallbacks(pending')) = 1
       /\ (running /\ ~running' /\ pending' # pending) =>
             /\ is_finishing
             /\ LinesOf(Done) # {}
             /\ current_time = DoneTime + GracePeriod
      ]_vars

====
